---- MODULE Spec2Model ----
(***************************************************************************)
(* The classic-cars REST API: the API-key gate (middleware/checkApiKey),   *)
(* the five handlers of controllers/usersControllers.js and the `cars`     *)
(* table of database.js, the startup of index.js and the buttons of         *)
(* public/app.js, as a state machine.  A request is admitted by     *)
(* the router, passes the gate and the synchronous part of its handler,    *)
(* and then alternates between a statement applied by the store and the    *)
(* callback the handler registered for it, until a response is sent.       *)
(***************************************************************************)
EXTENDS Integers, Sequences, FiniteSets, TLC

(* ------------------------------ bounds -------------------------------- *)

\* Create requests are admitted while the autoincrement counter is below this.
MaxId == 2
\* The store's clock (CURRENT_TIMESTAMP) reads 1..MaxClock.
MaxClock == 2
\* Most delete requests one list row has in flight at once.
MaxPending == 3

(* ---------------------------- JS / SQL values ------------------------- *)

Undefined == [t |-> "undefined"]
Null == [t |-> "null"]
Str(s) == [t |-> "string", v |-> s]
Num(n) == [t |-> "number", v |-> n]
Ts(n) == [t |-> "datetime", v |-> n]

\* JavaScript's !v for the values above.
Falsy(v) == v \in {Undefined, Null, Str(""), Num(0)}

\* How a JS value is bound to a `?` of a statement: undefined and null both
\* reach the store as SQL NULL.
Bind(v) == IF v = Undefined THEN Null ELSE v

\* Number.prototype.toString / the decimal text of a generated id.
Digits == <<"1", "2", "3", "4", "5", "6", "7", "8", "9">>
IdText(n) == Digits[n]

(* ------------------------------ inputs -------------------------------- *)

\* The request slots: requests that may be in flight at the same time.
Reqs == {"r1", "r2"}

validApiKey == Str("ma-super-cle-api-2024")

\* Values of the x-api-key header: absent, empty, the secret, another key.
Keys == {Undefined, Str(""), validApiKey, Str("wrong-key")}

Ops == {"list", "get", "create", "update", "delete"}

Car(b, m, y, c, p, k, d) ==
  [brand |-> b, model |-> m, year |-> y, color |-> c, price |-> p,
   mileage |-> k, description |-> d]

\* req.body of a request sent without a JSON body.
EmptyBody ==
  Car(Undefined, Undefined, Undefined, Undefined, Undefined, Undefined, Undefined)

\* Request payloads: complete, optional fields absent or null, and payloads
\* whose required fields are absent, null, empty or zero.
Payloads ==
  { Car(Str("Ferrari"), Str("250 GTO"), Num(1962), Str("Rouge"), Num(45000000),
        Num(12000), Str("Voiture de collection")),
    Car(Str("X"), Str("Y"), Num(2000), Null, Undefined, Null, Undefined),
    Car(Undefined, Str("E-Type"), Num(1961), Null, Null, Null, Null),
    Car(Str("Jaguar"), Null, Num(1961), Null, Null, Null, Null),
    Car(Str("Jaguar"), Str("E-Type"), Undefined, Null, Null, Null, Null),
    Car(Str(""), Str("E-Type"), Num(1961), Null, Null, Null, Null),
    Car(Str("Jaguar"), Str("E-Type"), Num(0), Null, Null, Null, Null) }

\* Values of the :id path segment: the decimal text of an id, the same id
\* written with a leading zero, and texts that name no row.
IdParams == {IdText(i) : i \in 1..MaxId} \cup {"01", "abc", "0"}

(* ------------------------------ the store ----------------------------- *)

\* The comparison `id = ?` of an INTEGER column with a bound text: the text is
\* converted with numeric affinity, and a text that is no number equals no id.
IdMatches(i, p) ==
  \/ p = "01" /\ i = 1
  \/ p = "0" /\ i = 0
  \/ i \in 1..Len(Digits) /\ p = IdText(i)

\* Mutant: the columns carry no NOT NULL constraint.
NotNullOff(v) == TRUE

\* brand, model and year are declared NOT NULL.
NotNullOk(v) == v.brand # Null /\ v.model # Null /\ v.year # Null

\* The values a statement binds for the seven columns (usersControllers.js:70,
\* :124).
BindAll(b) ==
  Car(Bind(b.brand), Bind(b.model), Bind(b.year), Bind(b.color), Bind(b.price),
      Bind(b.mileage), Bind(b.description))

Max(S) == CHOOSE x \in S : \A y \in S : y <= x

\* Mutant: a plain INTEGER PRIMARY KEY, which reuses the id of a deleted last
\* row.
NextRowIdNoAuto(table, sequence) == Max(DOMAIN table \cup {0}) + 1

\* id INTEGER PRIMARY KEY AUTOINCREMENT: one more than the largest id the table
\* ever held (sqlite_sequence), never a deleted row's id.
NextRowId(table, sequence) == Max(DOMAIN table \cup {sequence}) + 1

\* A stored row as a SELECT * returns it.
RowOf(table, i) ==
  [id |-> Num(i), brand |-> table[i].brand, model |-> table[i].model,
   year |-> table[i].year, color |-> table[i].color, price |-> table[i].price,
   mileage |-> table[i].mileage, description |-> table[i].description,
   created_at |-> table[i].created_at]

\* SELECT * FROM cars WHERE id = ?  (db.get: the first row, or undefined).
SelectById(table, p) ==
  IF \E i \in DOMAIN table : IdMatches(i, p)
  THEN RowOf(table, CHOOSE i \in DOMAIN table : IdMatches(i, p))
  ELSE Undefined

\* Mutant: ORDER BY year ASC.
YearAsc(table, s) ==
  \A i, j \in 1..Len(s) : i < j => table[s[i]].year.v <= table[s[j]].year.v

\* ORDER BY year DESC: the orders of the table's ids in which no row comes
\* before a row of a greater year (rows of equal year in any order).
YearDesc(table, s) ==
  \A i, j \in 1..Len(s) : i < j => table[s[i]].year.v >= table[s[j]].year.v

Orders(table) ==
  { s \in [1..Cardinality(DOMAIN table) -> DOMAIN table] :
      /\ \A i, j \in 1..Len(s) : i # j => s[i] # s[j]
      /\ YearDesc(table, s) }

\* Mutant: price and mileage are bound to each other's column.
InsertRowSwapped(table, sequence, vals, clock) ==
  LET i == NextRowId(table, sequence)
  IN  (i :> [brand |-> vals.brand, model |-> vals.model, year |-> vals.year,
             color |-> vals.color, price |-> vals.mileage,
             mileage |-> vals.price, description |-> vals.description,
             created_at |-> Ts(clock)]) @@ table

\* INSERT INTO cars (...) VALUES (?, ?, ?, ?, ?, ?, ?): id and created_at are
\* assigned by the store.
InsertRow(table, sequence, vals, clock) ==
  LET i == NextRowId(table, sequence)
  IN  (i :> [brand |-> vals.brand, model |-> vals.model, year |-> vals.year,
             color |-> vals.color, price |-> vals.price,
             mileage |-> vals.mileage, description |-> vals.description,
             created_at |-> Ts(clock)]) @@ table

\* Mutant: the UPDATE has no WHERE clause.
UpdateRowsAll(table, vals, p) ==
  [i \in DOMAIN table |->
     [brand |-> vals.brand, model |-> vals.model, year |-> vals.year,
      color |-> vals.color, price |-> vals.price,
      mileage |-> vals.mileage, description |-> vals.description,
      created_at |-> table[i].created_at]]

\* UPDATE cars SET brand = ?, ..., description = ? WHERE id = ?
UpdateRows(table, vals, p) ==
  [i \in DOMAIN table |->
     IF IdMatches(i, p)
     THEN [brand |-> vals.brand, model |-> vals.model, year |-> vals.year,
           color |-> vals.color, price |-> vals.price,
           mileage |-> vals.mileage, description |-> vals.description,
           created_at |-> table[i].created_at]
     ELSE table[i]]

\* DELETE FROM cars WHERE id = ?
DeleteRows(table, p) ==
  [i \in {j \in DOMAIN table : ~IdMatches(j, p)} |-> table[i]]

(* ------------------------------- state -------------------------------- *)

VARIABLES
  cars,     \* the cars table: id -> stored row
  seq,      \* sqlite_sequence: the largest id the table ever held
  req,      \* the request in each slot
  created,  \* observer: the ids returned by 201 responses, in order
  expect,   \* observer: id -> the payload last acknowledged for it, and by what
  gone,     \* observer: the ids whose deletion was acknowledged with 200
  boot,     \* the startup of the server process
  ui        \* the buttons of the browser client

vars == <<cars, seq, req, created, expect, gone, boot, ui>>

NoTable == [i \in {} |-> Null]

\* A slot with no request.  pc: "idle", "db" (a statement is queued in the
\* store), "cb" (its callback is due), "done" (the response was sent).
\* next: the gate called next(); nstmt: the statements issued so far;
\* pre: the table when the request arrived.
IdleReq ==
  [pc |-> "idle", op |-> "none", key |-> Undefined, id |-> "", body |-> EmptyBody,
   next |-> FALSE, stmt |-> "none", err |-> Null, row |-> Undefined, lastID |-> Undefined,
   status |-> 0, data |-> Undefined, nstmt |-> 0, pre |-> NoTable,
   changes |-> 0, sent |-> 0]

\* Data of the automatic seeding (sampleCars).
sampleCars ==
  << Car(Str("Ferrari"), Str("250 GTO"), Num(1962), Str("Rouge"), Num(45000000),
         Num(12000), Str("Voiture de collection exceptionnelle")),
     Car(Str("Porsche"), Str("911 Carrera RS"), Num(1973), Str("Blanc"),
         Num(850000), Num(45000), Str("Legendaire modele RS")),
     Car(Str("Jaguar"), Str("E-Type"), Num(1961), Str("Bleu"), Num(320000),
         Num(78000), Str("Icone du design automobile")),
     Car(Str("Mercedes-Benz"), Str("300 SL"), Num(1955), Str("Argent"),
         Num(1200000), Num(34000), Str("Portes papillon emblematiques")),
     Car(Str("Aston Martin"), Str("DB5"), Num(1964), Str("Gris"), Num(750000),
         Num(56000), Str("La voiture de James Bond")) >>

\* The process as its modules are loaded.  variant: "plain" (index.js, no
\* seeding) or "seed" (the index.js that seeds an empty table).  phase:
\* "schema" (CREATE TABLE is queued), "count" (the COUNT of seedIfEmpty is
\* queued), "seeding" (the inserts of sampleCars are queued), "listening"
\* (app.listen was called), "exited" (process.exit was called).  schema and
\* count record how these statements ended, ins the state of each insert
\* ("none", "queued", "ok" or "err" when the store ran it, "done" when its
\* callback counted it), listened whether app.listen was ever called.
BootStart(variant) ==
  [variant |-> variant, phase |-> "schema", schema |-> "queued",
   count |-> "none", ins |-> [k \in 1..Len(sampleCars) |-> "none"],
   insertedCount |-> 0, listened |-> FALSE, code |-> 0]

\* A process that runs the index.js without seeding and listens.
Serving ==
  [BootStart("plain") EXCEPT !.phase = "listening", !.schema = "ok",
                             !.listened = TRUE]

\* A button of the page.  present: it is in the document; pending: the
\* requests it triggered that are in flight.
Button(present, disabled, label, pending) ==
  [present |-> present, disabled |-> disabled, label |-> label,
   pending |-> pending]

\* The two pages when their scripts have run: the list page has started its
\* first load (handleRefresh) and shows no row yet; the detail page shows a
\* car and its delete button.
UiStart ==
  [refresh |-> Button(TRUE, TRUE, "Chargement...", 1),
   submit |-> Button(TRUE, FALSE, "Ajouter", 0),
   row |-> Button(FALSE, FALSE, "Supprimer", 0),
   detail |-> Button(TRUE, FALSE, "Supprimer cette voiture", 0),
   redirect |-> FALSE]

Init ==
  /\ cars = NoTable
  /\ seq = 0
  /\ req = [r \in Reqs |-> IdleReq]
  /\ created = <<>>
  /\ expect = NoTable
  /\ gone = {}
  /\ boot = Serving
  /\ ui = UiStart

(* --------------------- gate and handlers (sync part) ------------------ *)

\* res.status(code).json(body): the response is sent.
Respond(q, code, body) ==
  [q EXCEPT !.pc = "done", !.status = code, !.data = body, !.sent = @ + 1]

\* db.get / db.all / db.run: the statement is handed to the store.
Issue(q, statement) ==
  [q EXCEPT !.pc = "db", !.stmt = statement, !.nstmt = @ + 1]

getAllCars(q) == Issue(q, "all")

getCarById(q) == Issue(q, "get")

\* Mutant: the year is not validated.
createCarNoYearCheck(q) ==
  IF Falsy(q.body.brand) \/ Falsy(q.body.model)
  THEN Respond(q, 400, Undefined)
  ELSE Issue(q, "insert")

createCar(q) ==
  IF Falsy(q.body.brand) \/ Falsy(q.body.model) \/ Falsy(q.body.year)
  THEN Respond(q, 400, Undefined)
  ELSE Issue(q, "insert")

updateCar(q) == Issue(q, "get")

deleteCar(q) == Issue(q, "get")

\* The route table: the handler behind the gate for each method and path.
Handler(q) ==
  CASE q.op = "list" -> getAllCars(q)
    [] q.op = "get" -> getCarById(q)
    [] q.op = "create" -> createCar(q)
    [] q.op = "update" -> updateCar(q)
    [] q.op = "delete" -> deleteCar(q)

\* Mutant: the two rejections answer with each other's status.
checkApiKeySwapped(q) ==
  IF Falsy(q.key) THEN Respond(q, 403, Undefined)
  ELSE IF q.key # validApiKey THEN Respond(q, 401, Undefined)
  ELSE Handler([q EXCEPT !.next = TRUE])

\* Mutant: any non-empty key is let through.
checkApiKeyNoCompare(q) ==
  IF Falsy(q.key) THEN Respond(q, 401, Undefined)
  ELSE Handler([q EXCEPT !.next = TRUE])

\* checkApiKey with next() bound to the route's handler.
checkApiKey(q) ==
  IF Falsy(q.key) THEN Respond(q, 401, Undefined)
  ELSE IF q.key # validApiKey THEN Respond(q, 403, Undefined)
  ELSE Handler([q EXCEPT !.next = TRUE])

(* ------------------------- the store applies a statement -------------- *)

\* The outcome of a statement that the store could not run.
Failed(table, sequence, message) ==
  [cars |-> table, seq |-> sequence, err |-> Str(message), row |-> Undefined,
   lastID |-> Undefined, changes |-> 0]

\* The outcome of request q's queued statement on the given table: the table
\* and sequence after it, and what its callback receives (err, row or rows,
\* this.lastID, this.changes).  `order` is the row order a SELECT ... ORDER BY delivers.
Exec(q, table, sequence, clock, order) ==
  LET vals == BindAll(q.body)
      hit == \E i \in DOMAIN table : IdMatches(i, q.id)
      hits == Cardinality({i \in DOMAIN table : IdMatches(i, q.id)})
      same == [cars |-> table, seq |-> sequence, err |-> Null, row |-> Undefined,
               lastID |-> Undefined, changes |-> 0]
  IN  CASE q.stmt = "all" ->
             [same EXCEPT !.row = [k \in 1..Len(order) |-> RowOf(table, order[k])]]
        [] q.stmt = "get" ->
             [same EXCEPT !.row = SelectById(table, q.id)]
        [] q.stmt = "insert" ->
             IF NotNullOk(vals)
             THEN [same EXCEPT !.cars = InsertRow(table, sequence, vals, clock),
                               !.seq = NextRowId(table, sequence),
                               !.lastID = Num(NextRowId(table, sequence)),
                               !.changes = 1]
             ELSE Failed(table, sequence, "SQLITE_CONSTRAINT")
        [] q.stmt = "update" ->
             IF hit /\ ~NotNullOk(vals)
             THEN Failed(table, sequence, "SQLITE_CONSTRAINT")
             ELSE [same EXCEPT !.cars = UpdateRows(table, vals, q.id),
                               !.changes = hits]
        [] q.stmt = "delete" ->
             [same EXCEPT !.cars = DeleteRows(table, q.id), !.changes = hits]

(* ------------------------------ callbacks ----------------------------- *)

\* The echo of the request's fields in a create or update response.
Echo(idValue, b) ==
  [id |-> idValue, brand |-> b.brand, model |-> b.model, year |-> b.year,
   color |-> b.color, price |-> b.price, mileage |-> b.mileage,
   description |-> b.description]

getAllCarsCb(q) ==
  IF ~Falsy(q.err) THEN Respond(q, 500, Undefined)
  ELSE Respond(q, 200, [count |-> Len(q.row), data |-> q.row])

getCarByIdCb(q) ==
  IF ~Falsy(q.err) THEN Respond(q, 500, Undefined)
  ELSE IF Falsy(q.row) THEN Respond(q, 404, Undefined)
  ELSE Respond(q, 200, q.row)

createCarCb(q) ==
  IF ~Falsy(q.err) THEN Respond(q, 500, Undefined)
  ELSE Respond(q, 201, Echo(q.lastID, q.body))

\* Mutant: the lookup's result is not tested.
updateCarFindCbNoCheck(q) ==
  IF ~Falsy(q.err) THEN Respond(q, 500, Undefined)
  ELSE Issue(q, "update")

\* Mutant: the 404 branch does not return.
updateCarFindCbNoReturn(q) ==
  IF ~Falsy(q.err) THEN Respond(q, 500, Undefined)
  ELSE IF Falsy(q.row) THEN Issue(Respond(q, 404, Undefined), "update")
  ELSE Issue(q, "update")

updateCarFindCb(q) ==
  IF ~Falsy(q.err) THEN Respond(q, 500, Undefined)
  ELSE IF Falsy(q.row) THEN Respond(q, 404, Undefined)
  ELSE Issue(q, "update")

updateCarRunCb(q) ==
  IF ~Falsy(q.err) THEN Respond(q, 500, Undefined)
  ELSE Respond(q, 200, Echo(Str(q.id), q.body))

\* Mutant: the lookup's result is not tested.
deleteCarFindCbNoCheck(q) ==
  IF ~Falsy(q.err) THEN Respond(q, 500, Undefined)
  ELSE Issue(q, "delete")

deleteCarFindCb(q) ==
  IF ~Falsy(q.err) THEN Respond(q, 500, Undefined)
  ELSE IF Falsy(q.row) THEN Respond(q, 404, Undefined)
  ELSE Issue(q, "delete")

deleteCarRunCb(q) ==
  IF ~Falsy(q.err) THEN Respond(q, 500, Undefined)
  ELSE Respond(q, 200, [id |-> Str(q.id)])

\* The callback registered with the statement whose result is in q.
CallbackOf(q) ==
  CASE q.op = "list" -> getAllCarsCb(q)
    [] q.op = "get" -> getCarByIdCb(q)
    [] q.op = "create" -> createCarCb(q)
    [] q.op = "update" /\ q.stmt = "get" -> updateCarFindCb(q)
    [] q.op = "update" /\ q.stmt = "update" -> updateCarRunCb(q)
    [] q.op = "delete" /\ q.stmt = "get" -> deleteCarFindCb(q)
    [] q.op = "delete" /\ q.stmt = "delete" -> deleteCarRunCb(q)

(* ------------------------------ observer ------------------------------ *)

\* What a client that reads the responses knows after request q completed.
Acked(q) == q.pc = "done" /\ q.status \in {200, 201}

CreatedAfter(q) ==
  IF Acked(q) /\ q.op = "create" THEN Append(created, q.data.id.v) ELSE created

ExpectAfter(q) ==
  IF Acked(q) /\ q.op = "create"
    THEN (q.data.id.v :> [by |-> "create", body |-> q.body]) @@ expect
  ELSE IF Acked(q) /\ q.op = "update"
    THEN [i \in DOMAIN expect |->
            IF IdMatches(i, q.id) THEN [by |-> "update", body |-> q.body]
            ELSE expect[i]]
  ELSE IF Acked(q) /\ q.op = "delete"
    THEN [i \in {j \in DOMAIN expect : ~IdMatches(j, q.id)} |-> expect[i]]
  ELSE expect

GoneAfter(q) ==
  IF Acked(q) /\ q.op = "delete"
  THEN gone \cup {i \in DOMAIN expect : IdMatches(i, q.id)}
  ELSE gone

(* ------------------------------- actions ------------------------------ *)

InFlight(r) == req[r].pc \in {"db", "cb"}

\* No request is being served.
Quiet == \A r \in Reqs : ~InFlight(r)

\* Inserts that are queued and not yet applied.
QueuedInserts == {r \in Reqs : req[r].pc = "db" /\ req[r].stmt = "insert"}

\* A request arrives in slot r: the gate and the synchronous part of the
\* handler run in the same turn.
Submit(r, op, key, id, body) ==
  /\ req[r].pc = "idle"
  /\ op = "create" => seq + Cardinality(QueuedInserts) < MaxId
  /\ req' = [req EXCEPT ![r] =
               checkApiKey([IdleReq EXCEPT !.op = op, !.key = key, !.id = id,
                                           !.body = body, !.pre = cars])]
  /\ UNCHANGED <<cars, seq, created, expect, gone, boot, ui>>

\* The :id values and the bodies a request is drawn with: an id on the /:id
\* routes, a body on POST and PUT.  checkApiKey reads nothing but the header,
\* so a request with another key than the secret is drawn with one id and one
\* body per route.
IdsFor(op, key) ==
  IF op \notin {"get", "update", "delete"} THEN {""}
  ELSE IF key = validApiKey THEN IdParams
  ELSE {"1"}

BodiesFor(op, key) ==
  IF op \notin {"create", "update"} THEN {EmptyBody}
  ELSE IF key = validApiKey THEN Payloads
  ELSE {b \in Payloads : b.brand = Str("Ferrari")}

\* A request arrives in slot r with some method, path, key and body.
Arrive(r) ==
  \E op \in Ops, key \in Keys :
    \E id \in IdsFor(op, key), body \in BodiesFor(op, key) :
      Submit(r, op, key, id, body)

\* The readings of the store's clock when a row is inserted: not before the
\* created_at of a row already stored.
Clock(table) ==
  {t \in 1..MaxClock : \A i \in DOMAIN table : table[i].created_at.v <= t}

\* The store applies the statement queued by slot r; with fail it reports an
\* I/O error instead and changes nothing.
DbExec(r, fail) ==
  /\ req[r].pc = "db"
  /\ \E order \in (IF req[r].stmt = "all" THEN Orders(cars) ELSE {<<>>}),
        clock \in (IF req[r].stmt = "insert" THEN Clock(cars) ELSE {1}) :
       LET out == IF fail THEN Failed(cars, seq, "SQLITE_IOERR")
                  ELSE Exec(req[r], cars, seq, clock, order)
       IN  /\ cars' = out.cars
           /\ seq' = out.seq
           /\ req' = [req EXCEPT ![r].pc = "cb", ![r].err = out.err,
                                 ![r].row = out.row, ![r].lastID = out.lastID,
                                 ![r].changes = out.changes]
  /\ UNCHANGED <<created, expect, gone, boot, ui>>

\* The callback of slot r's statement runs.
Callback(r) ==
  /\ req[r].pc = "cb"
  /\ LET q == CallbackOf(req[r])
     IN  /\ req' = [req EXCEPT ![r] = q]
         /\ created' = CreatedAfter(q)
         /\ expect' = ExpectAfter(q)
         /\ gone' = GoneAfter(q)
  /\ UNCHANGED <<cars, seq, boot, ui>>

\* The response of slot r has been delivered; the slot is free again.
Close(r) ==
  /\ req[r].pc = "done"
  /\ req' = [req EXCEPT ![r] = IdleReq]
  /\ UNCHANGED <<cars, seq, created, expect, gone, boot, ui>>

\* Requests issued one at a time against a store that does not fail.
Next ==
  \/ Quiet /\ Arrive("r1")
  \/ \E r \in Reqs : DbExec(r, FALSE)
  \/ \E r \in Reqs : Callback(r)
  \/ \E r \in Reqs : Close(r)

Spec == Init /\ [][Next]_vars

(* =============================== claims =============================== *)

Fields == {"brand", "model", "year", "color", "price", "mileage", "description"}
Required == {"brand", "model", "year"}

\* The requests that were admitted and whose slot still shows them.
Live == {r \in Reqs : req[r].pc # "idle"}
Done(opName) ==
  {r \in Reqs : req[r].pc = "done" /\ req[r].op = opName /\ req[r].key = validApiKey}

\* A field of a payload as a later read shows it: what was not sent is null.
ReadBack(v) == IF v = Undefined THEN Null ELSE v

\* The table t without row i.
Without(t, i) == [j \in DOMAIN t \ {i} |-> t[j]]

(* ---------------------------------- C1 -------------------------------- *)

\* C1 as stated: 401 when the x-api-key header is missing, 403 when it is
\* present but differs from the secret, next() (and no response from the gate)
\* exactly when it equals the secret.
C1_AsStated ==
  \A r \in Live :
    /\ req[r].key = Undefined => req[r].status = 401 /\ ~req[r].next
    /\ req[r].key # Undefined /\ req[r].key # validApiKey =>
         req[r].status = 403 /\ ~req[r].next
    /\ req[r].key = validApiKey <=> req[r].next
    /\ req[r].next => req[r].status \notin {401, 403}

\* C1, amended: the gate answers 401 when the x-api-key header is missing or
\* empty, 403 when it is non-empty and differs from the secret, and calls
\* next(), sending no response itself, exactly when it equals the secret.
C1_Gate ==
  \A r \in Live :
    /\ req[r].key \in {Undefined, Str("")} => req[r].status = 401 /\ ~req[r].next
    /\ req[r].key \notin {Undefined, Str(""), validApiKey} =>
         req[r].status = 403 /\ ~req[r].next
    /\ req[r].key = validApiKey <=> req[r].next
    /\ req[r].next => req[r].status \notin {401, 403}

\* An empty x-api-key header was answered 401.
C1_Witness ==
  \E r \in Live : req[r].key = Str("") /\ req[r].pc = "done" /\ req[r].status = 401

(* ---------------------------------- C2 -------------------------------- *)

\* C2: on every method of /api/cars and /api/cars/:id, a request whose
\* x-api-key is missing or wrong never reaches the handler: it is answered by
\* the gate, no statement is issued for it, and the table is as it was when
\* the request arrived.
C2_GateBlocks ==
  \A r \in Live :
    req[r].key # validApiKey =>
      /\ req[r].pc = "done" /\ req[r].status \in {401, 403}
      /\ ~req[r].next
      /\ req[r].nstmt = 0 /\ req[r].stmt = "none"
      /\ cars = req[r].pre

\* A DELETE of a stored row with a wrong key was rejected.
C2_Witness ==
  \E r \in Live :
    /\ req[r].op = "delete" /\ req[r].key = Str("wrong-key")
    /\ req[r].id = "1" /\ 1 \in DOMAIN cars
    /\ req[r].status = 403

(* ---------------------------------- C3 -------------------------------- *)

\* The table after request r differs from the table before it by exactly one
\* new row, whose id is the one the response returns.
OneRowAdded(r) ==
  /\ req[r].data.id.v \notin DOMAIN req[r].pre
  /\ DOMAIN cars = DOMAIN req[r].pre \cup {req[r].data.id.v}
  /\ \A i \in DOMAIN req[r].pre : cars[i] = req[r].pre[i]

\* C3 as stated: Create with brand, model or year missing answers 400 and
\* persists nothing; every other Create inserts exactly one row and answers 201.
C3_AsStated ==
  \A r \in Done("create") :
    IF \E f \in Required : req[r].body[f] \in {Undefined, Null}
    THEN req[r].status = 400 /\ cars = req[r].pre
    ELSE req[r].status = 201 /\ OneRowAdded(r)

\* C3, amended: Create with brand, model or year missing, null, empty or zero
\* answers 400 and persists nothing; every other Create inserts exactly one
\* row and answers 201.
C3_Create ==
  \A r \in Done("create") :
    IF \E f \in Required : req[r].body[f] \in {Undefined, Null, Str(""), Num(0)}
    THEN req[r].status = 400 /\ req[r].nstmt = 0 /\ cars = req[r].pre
    ELSE req[r].status = 201 /\ OneRowAdded(r)

\* A Create with an empty brand was answered 400 while the table held a row.
C3_Witness ==
  \E r \in Done("create") :
    /\ req[r].body.brand = Str("") /\ req[r].status = 400
    /\ cars # NoTable

(* ---------------------------------- C4 -------------------------------- *)

\* C4: the id returned by each successful Create is greater than (so different
\* from) every id returned by an earlier Create, rows deleted since included.
C4_IdsIncrease ==
  \A i, j \in 1..Len(created) : i < j => created[i] < created[j]

\* A Create was acknowledged after the row of an earlier Create was deleted.
C4_Witness ==
  /\ Len(created) >= 2
  /\ created[1] \in gone
  /\ \E r \in Done("create") : req[r].status = 201 /\ req[r].data.id.v = created[2]

(* ---------------------------------- C5 -------------------------------- *)

\* The Car in the response of r shows payload b: every field sent reads back
\* as sent, every field not sent reads back as null.
Shows(r, b) == \A f \in Fields : req[r].data[f] = ReadBack(b[f])

\* C5: after a Create was acknowledged with id i and payload b, and no update
\* or delete of i was acknowledged since, Get by i answers 200 with a Car of
\* id i whose seven fields read back b, and with a created_at set by the store.
C5_RoundTrip ==
  \A r \in Done("get") :
    \A i \in DOMAIN expect :
      expect[i].by = "create" /\ req[r].id = IdText(i) =>
        /\ req[r].status = 200
        /\ req[r].data.id = Num(i)
        /\ Shows(r, expect[i].body)
        /\ req[r].data.created_at.t = "datetime"

\* A car created without price and description was read back.
C5_Witness ==
  \E r \in Done("get") :
    \E i \in DOMAIN expect :
      /\ expect[i].by = "create" /\ req[r].id = IdText(i)
      /\ expect[i].body.price = Undefined
      /\ expect[i].body.brand = Str("X")
      /\ req[r].status = 200

(* ---------------------------------- C6 -------------------------------- *)

\* C6: Delete of an id whose row exists answers 200 with data {id} and removes
\* that row and no other; Delete of an id whose deletion was acknowledged
\* before answers 404 and leaves the table as it was.
C6_Delete ==
  \A r \in Done("delete") :
    \A i \in 1..(MaxId + 1) :
      req[r].id = IdText(i) =>
        /\ i \in DOMAIN req[r].pre =>
             /\ req[r].status = 200
             /\ req[r].data = [id |-> Str(req[r].id)]
             /\ cars = Without(req[r].pre, i)
        /\ i \in gone /\ i \notin DOMAIN req[r].pre =>
             /\ req[r].status = 404
             /\ cars = req[r].pre

\* A second Delete of the same id was answered 404 while another row stayed.
C6_Witness ==
  \E r \in Done("delete") :
    \E i \in gone :
      /\ req[r].id = IdText(i) /\ req[r].status = 404
      /\ cars # NoTable

(* ---------------------------------- C7 -------------------------------- *)

\* C7: Update of an existing id with non-null brand, model and year (optional
\* fields may be null) answers 200 and changes neither the row's created_at
\* nor the set of ids nor any other row; and a Get of that id, while the
\* update is the last change acknowledged for it, answers 200 with the id and
\* all the new values, the nulled optional fields included.
C7_Update ==
  /\ \A r \in Done("update") :
       \A i \in DOMAIN req[r].pre :
         /\ req[r].id = IdText(i)
         /\ \A f \in Required : req[r].body[f] \notin {Undefined, Null}
         => /\ req[r].status = 200
            /\ DOMAIN cars = DOMAIN req[r].pre
            /\ cars[i].created_at = req[r].pre[i].created_at
            /\ \A j \in DOMAIN cars \ {i} : cars[j] = req[r].pre[j]
  /\ \A r \in Done("get") :
       \A i \in DOMAIN expect :
         expect[i].by = "update" /\ req[r].id = IdText(i) =>
           /\ req[r].status = 200
           /\ req[r].data.id = Num(i)
           /\ Shows(r, expect[i].body)

\* A Get after an Update that nulled the colour of a row, with another row
\* stored.
C7_Witness ==
  \E r \in Done("get") :
    \E i \in DOMAIN expect :
      /\ expect[i].by = "update" /\ req[r].id = IdText(i)
      /\ expect[i].body.color = Null /\ expect[i].body.year = Num(2000)
      /\ req[r].status = 200 /\ req[r].data.color = Null
      /\ Cardinality(DOMAIN cars) >= 2

(* ---------------------------------- C8 -------------------------------- *)

\* C8: List answers 200 with every stored Car exactly once, count being the
\* number of rows (an empty array and 0 for an empty table); when the years of
\* the rows are distinct the array is strictly descending by year; and List
\* leaves the table as it was.
C8_List ==
  \A r \in Done("list") :
    LET rows == req[r].data.data
        t == req[r].pre
    IN  /\ req[r].status = 200
        /\ req[r].data.count = Cardinality(DOMAIN t)
        /\ Len(rows) = Cardinality(DOMAIN t)
        /\ {rows[k].id.v : k \in 1..Len(rows)} = DOMAIN t
        /\ \A k \in 1..Len(rows) :
             /\ rows[k].created_at = t[rows[k].id.v].created_at
             /\ \A f \in Fields : rows[k][f] = t[rows[k].id.v][f]
        /\ (\A i, j \in DOMAIN t : i # j => t[i].year # t[j].year)
             => \A k, l \in 1..Len(rows) : k < l => rows[k].year.v > rows[l].year.v
        /\ cars = t

\* A List of two cars in which the car inserted later comes first.
C8_Witness ==
  \E r \in Done("list") :
    /\ req[r].data.count = 2
    /\ req[r].data.data[1].id.v > req[r].data.data[2].id.v
    /\ req[r].data.data[1].year.v > req[r].data.data[2].year.v

(* ---------------------------------- C9 -------------------------------- *)

\* C9: every row of the cars table has non-null brand, model and year.
C9_RequiredNotNull ==
  \A i \in DOMAIN cars : \A f \in Required : cars[i][f] \notin {Null, Undefined}

\* An Update of a stored row with a null model was refused by the store.
C9_Witness ==
  \E r \in Done("update") :
    /\ req[r].body.model = Null
    /\ req[r].id = "1" /\ 1 \in DOMAIN cars
    /\ req[r].status = 500

(* ---------------------------------- C10 ------------------------------- *)

\* The :id of request r names no row of the table the request found: it is no
\* number, not positive, or the number of no row.
NamesNoRow(r) ==
  \/ req[r].id \in {"abc", "0"}
  \/ \E i \in (1..(MaxId + 1)) \ DOMAIN req[r].pre : req[r].id = IdText(i)

\* C10: Update on an id with no row (a non-numeric or non-positive id
\* included) answers 404 and attempts no write: only the lookup is issued,
\* never the UPDATE, and the table is as it was.
C10_UpdateNotFound ==
  \A r \in Live :
    req[r].op = "update" /\ req[r].key = validApiKey /\ NamesNoRow(r) =>
      /\ req[r].stmt = "get" /\ req[r].nstmt = 1
      /\ cars = req[r].pre
      /\ req[r].pc = "done" => req[r].status = 404

\* An Update of /api/cars/abc was answered 404 while the table held a row.
C10_Witness ==
  \E r \in Done("update") :
    /\ req[r].id = "abc" /\ req[r].status = 404
    /\ \A f \in Required : ~Falsy(req[r].body[f])
    /\ cars # NoTable

(* =============================== startup ============================== *)

\* .catch: process.exit(1).
Exit(b) == [b EXCEPT !.phase = "exited", !.code = 1]

\* .then: app.listen(PORT).
Listen(b) == [b EXCEPT !.phase = "listening", !.listened = TRUE]

\* Mutant: seedIfEmpty resolves on the first insert that succeeds.
SeedResolvedEarly(count) == count >= 1

\* insertedCount === sampleCars.length
SeedResolved(count) == count = Len(sampleCars)

\* The table a process may find: none yet, or one that holds a row.
StoredTables ==
  {NoTable, InsertRow(NoTable, 0, BindAll(sampleCars[1]), 1)}

\* The process starts, in either variant, on either table.
InitBoot ==
  /\ cars \in StoredTables
  /\ seq = Cardinality(DOMAIN cars)
  /\ req = [r \in Reqs |-> IdleReq]
  /\ created = <<>>
  /\ expect = NoTable
  /\ gone = {}
  /\ boot \in {BootStart("plain"), BootStart("seed")}
  /\ ui = UiStart

\* The callback of CREATE TABLE IF NOT EXISTS: reject, or resolve and then
\* listen (plain) or call seedIfEmpty, which queues its COUNT.
SchemaDone(fail) ==
  /\ boot.phase = "schema"
  /\ boot' = IF fail THEN Exit([boot EXCEPT !.schema = "err"])
             ELSE IF boot.variant = "plain"
               THEN Listen([boot EXCEPT !.schema = "ok"])
             ELSE [boot EXCEPT !.schema = "ok", !.phase = "count",
                               !.count = "queued"]
  /\ UNCHANGED <<cars, seq, req, created, expect, gone, ui>>

\* The callback of SELECT COUNT(*): reject; or, the table being empty, queue
\* one insert per sample car; or resolve.
CountDone(fail) ==
  /\ boot.phase = "count"
  /\ boot' = IF fail THEN Exit([boot EXCEPT !.count = "err"])
             ELSE IF Cardinality(DOMAIN cars) = 0
               THEN [boot EXCEPT !.count = "empty", !.phase = "seeding",
                                 !.ins = [k \in 1..Len(sampleCars) |-> "queued"]]
             ELSE Listen([boot EXCEPT !.count = "rows"])
  /\ UNCHANGED <<cars, seq, req, created, expect, gone, ui>>

\* The store runs the queued insert of sample car k, or fails to.
SeedRun(k, fail) ==
  /\ boot.phase = "seeding"
  /\ boot.ins[k] = "queued"
  /\ IF fail
     THEN /\ boot' = [boot EXCEPT !.ins[k] = "err"]
          /\ UNCHANGED <<cars, seq>>
     ELSE \E clock \in Clock(cars) :
            /\ cars' = InsertRow(cars, seq, BindAll(sampleCars[k]), clock)
            /\ seq' = NextRowId(cars, seq)
            /\ boot' = [boot EXCEPT !.ins[k] = "ok"]
  /\ UNCHANGED <<req, created, expect, gone, ui>>

\* The callback of the insert of sample car k: reject on an error, else count
\* it and resolve when all are counted.
SeedCallback(k) ==
  /\ boot.phase = "seeding"
  /\ boot.ins[k] \in {"ok", "err"}
  /\ boot' = IF boot.ins[k] = "err" THEN Exit([boot EXCEPT !.ins[k] = "failed"])
             ELSE LET b == [boot EXCEPT !.ins[k] = "done", !.insertedCount = @ + 1]
                  IN  IF SeedResolved(b.insertedCount) THEN Listen(b) ELSE b
  /\ UNCHANGED <<cars, seq, req, created, expect, gone, ui>>

NextBoot ==
  \/ \E fail \in BOOLEAN : SchemaDone(fail)
  \/ \E fail \in BOOLEAN : CountDone(fail)
  \/ \E k \in 1..Len(sampleCars), fail \in BOOLEAN : SeedRun(k, fail)
  \/ \E k \in 1..Len(sampleCars) : SeedCallback(k)

SpecBoot == InitBoot /\ [][NextBoot]_vars

(* ---------------------------------- C11 ------------------------------- *)

\* The columns of a stored row that a payload sets.
Payload(row) ==
  Car(row.brand, row.model, row.year, row.color, row.price, row.mileage,
      row.description)

\* Every sample car is stored, and nothing else.
Seeded ==
  /\ Cardinality(DOMAIN cars) = Len(sampleCars)
  /\ {Payload(cars[i]) : i \in DOMAIN cars}
       = {sampleCars[k] : k \in 1..Len(sampleCars)}

\* A callback of the initialization received an error.
InitFailed ==
  \/ boot.schema = "err"
  \/ boot.count = "err"
  \/ \E k \in 1..Len(sampleCars) : boot.ins[k] = "failed"

\* C11: app.listen is called only after the schema statement succeeded and, in
\* the seeding variant, after the COUNT succeeded and either found rows or
\* every sample car was inserted and counted; when a step of the
\* initialization fails the process exits with code 1 and has never listened.
C11_Startup ==
  /\ boot.listened =>
       /\ boot.schema = "ok"
       /\ boot.variant = "seed" =>
            \/ boot.count = "rows" /\ cars # NoTable
            \/ /\ boot.count = "empty"
               /\ \A k \in 1..Len(sampleCars) : boot.ins[k] = "done"
               /\ Seeded
  /\ InitFailed => boot.phase = "exited"
  /\ boot.phase = "exited" => boot.code = 1 /\ ~boot.listened /\ InitFailed
  /\ boot.phase # "exited" => boot.code = 0

\* The seeding variant listens on a table that it seeded, the Ferrari not
\* having been inserted first.
C11_Witness ==
  /\ boot.variant = "seed" /\ boot.phase = "listening" /\ boot.count = "empty"
  /\ Seeded
  /\ cars[1].brand # Str("Ferrari")

(* ============================ browser client ========================== *)

\* refreshBtn is clicked: handleRefresh up to its await.
handleRefresh ==
  /\ ~ui.refresh.disabled
  /\ ui' = [ui EXCEPT !.refresh = Button(TRUE, TRUE, "Chargement...", 1)]
  /\ UNCHANGED <<cars, seq, req, created, expect, gone, boot>>

\* fetchCars settles: on success renderCars replaces the rows (rows says
\* whether any car came back); the finally block restores the button.
handleRefreshDone(ok, rows) ==
  /\ ui.refresh.pending > 0
  /\ ui' = [ui EXCEPT !.refresh = Button(TRUE, FALSE, "Rafraîchir", 0),
                      !.row = IF ok THEN Button(rows, FALSE, "Supprimer", 0) ELSE @]
  /\ UNCHANGED <<cars, seq, req, created, expect, gone, boot>>

\* The form is submitted: handleFormSubmit up to its await.
handleFormSubmit ==
  /\ ~ui.submit.disabled
  /\ ui' = [ui EXCEPT !.submit = Button(TRUE, TRUE, "Ajout...", 1)]
  /\ UNCHANGED <<cars, seq, req, created, expect, gone, boot>>

\* createCar settles: on success a row is prepended (the model follows one
\* row, the first one the table has); the finally block restores the button.
handleFormSubmitDone(ok) ==
  /\ ui.submit.pending > 0
  /\ ui' = [ui EXCEPT !.submit = Button(TRUE, FALSE, "Ajouter", 0),
                      !.row = IF ok /\ ~@.present
                                THEN Button(TRUE, FALSE, "Supprimer", 0)
                              ELSE @]
  /\ UNCHANGED <<cars, seq, req, created, expect, gone, boot>>

\* The delete button of the list row is clicked: its handler up to the await.
RowDeleteClick(confirmDelete) ==
  /\ ui.row.present /\ ~ui.row.disabled
  /\ ui.row.pending < MaxPending
  /\ ui' = IF confirmDelete THEN [ui EXCEPT !.row.pending = @ + 1] ELSE ui
  /\ UNCHANGED <<cars, seq, req, created, expect, gone, boot>>

\* A deleteCar of the list row settles: tr.remove() on success.  What the
\* removed button still has in flight settles later.
RowDeleteDone(ok) ==
  /\ ui.row.pending > 0
  /\ ui' = [ui EXCEPT !.row.pending = @ - 1,
                      !.row.present = IF ok THEN FALSE ELSE @]
  /\ UNCHANGED <<cars, seq, req, created, expect, gone, boot>>

\* The delete button of the detail page is clicked: handleDelete up to its
\* await.
handleDelete(confirmDelete) ==
  /\ ui.detail.present /\ ~ui.detail.disabled
  /\ ui' = IF confirmDelete
             THEN [ui EXCEPT !.detail = Button(TRUE, TRUE, "Suppression...", 1)]
           ELSE ui
  /\ UNCHANGED <<cars, seq, req, created, expect, gone, boot>>

\* deleteCar of the detail page settles: a redirect is scheduled on success,
\* the button is restored in the catch block only.
handleDeleteDone(ok) ==
  /\ ui.detail.pending > 0
  /\ ui' = IF ok THEN [ui EXCEPT !.detail.pending = 0, !.redirect = TRUE]
           ELSE [ui EXCEPT !.detail = Button(TRUE, FALSE, "Supprimer cette voiture", 0)]
  /\ UNCHANGED <<cars, seq, req, created, expect, gone, boot>>

\* The timer set by handleDelete fires: the detail page is left.
Redirect ==
  /\ ui.redirect
  /\ ui' = [ui EXCEPT !.detail.present = FALSE, !.redirect = FALSE]
  /\ UNCHANGED <<cars, seq, req, created, expect, gone, boot>>

\* The detail page is opened again: handlePageLoad attaches handleDelete to
\* the button of the fresh page when the car is found.
handlePageLoad(ok) ==
  /\ ~ui.detail.present
  /\ ui' = IF ok
             THEN [ui EXCEPT !.detail = Button(TRUE, FALSE, "Supprimer cette voiture", 0)]
           ELSE ui
  /\ UNCHANGED <<cars, seq, req, created, expect, gone, boot>>

NextClient ==
  \/ handleRefresh
  \/ \E ok \in BOOLEAN, rows \in BOOLEAN : handleRefreshDone(ok, rows)
  \/ handleFormSubmit
  \/ \E ok \in BOOLEAN : handleFormSubmitDone(ok)
  \/ \E confirmDelete \in BOOLEAN : RowDeleteClick(confirmDelete)
  \/ \E ok \in BOOLEAN : RowDeleteDone(ok)
  \/ \E confirmDelete \in BOOLEAN : handleDelete(confirmDelete)
  \/ \E ok \in BOOLEAN : handleDeleteDone(ok)
  \/ Redirect
  \/ \E ok \in BOOLEAN : handlePageLoad(ok)

SpecClient == Init /\ [][NextClient]_vars

(* ---------------------------------- C12 ------------------------------- *)

Controls == {"refresh", "submit", "row", "detail"}

\* The label a control carries when no handler has touched it.
OriginalLabel(c) ==
  CASE c = "refresh" -> "Rafraîchir"
    [] c = "submit"  -> "Ajouter"
    [] c = "row"     -> "Supprimer"
    [] c = "detail"  -> "Supprimer cette voiture"

\* C12, as stated: every control on the page is disabled while a request it
\* triggered is in flight, and is enabled under its original label when none
\* is.  The list-row delete button is never disabled, and the detail-page
\* delete button stays disabled under "Suppression..." after a delete that
\* succeeded.
C12_AsStated ==
  \A c \in Controls :
    ui[c].present =>
      /\ ui[c].pending > 0 => ui[c].disabled
      /\ ui[c].pending = 0 => ~ui[c].disabled /\ ui[c].label = OriginalLabel(c)

(* ========================== concurrent requests ======================= *)

\* The routes that write, called with the secret.
Writes == {"create", "update", "delete"}

\* A writing request arrives in slot r, whatever the other slot is doing.  The
\* updates and deletes name the first id by its decimal text, and the payloads
\* are those that createCar accepts.
ArriveWrite(r) ==
  \E op \in Writes :
    \E id \in IdsFor(op, validApiKey) \cap {"", IdText(1)},
       body \in {b \in BodiesFor(op, validApiKey) :
                   b = EmptyBody \/ \A f \in {"brand", "model", "year"} : ~Falsy(b[f])} :
      Submit(r, op, validApiKey, id, body)

\* Two clients write at once; the store applies the queued statements one at
\* a time, in any order between the two requests.
NextConc ==
  \/ \E r \in Reqs : ArriveWrite(r)
  \/ \E r \in Reqs : DbExec(r, FALSE)
  \/ \E r \in Reqs : Callback(r)
  \/ \E r \in Reqs : Close(r)

SpecConc == Init /\ [][NextConc]_vars

(* ---------------------------------- C13 ------------------------------- *)

\* C13, as stated: an Update that responds 200 changed a row, that is, the
\* row it names was stored when its UPDATE statement was applied.  A Delete of
\* the same id whose DELETE is applied between the lookup and the UPDATE of
\* the Update leaves the UPDATE without a row to change; it reports no error
\* and updateCar answers 200.
C13_AsStated ==
  \A r \in Reqs :
    req[r].op = "update" /\ req[r].pc = "done" /\ req[r].status = 200
      => req[r].changes >= 1

(* ========================= a store that may fail ====================== *)

\* Requests issued one at a time against a store where any statement may hit
\* an I/O error.
NextFault ==
  \/ Quiet /\ Arrive("r1")
  \/ \E r \in Reqs, fail \in BOOLEAN : DbExec(r, fail)
  \/ \E r \in Reqs : Callback(r)
  \/ \E r \in Reqs : Close(r)

SpecFault == Init /\ [][NextFault]_vars

(* ---------------------------------- C14 ------------------------------- *)

\* The status that the path taken by request q ends with: the gate's
\* rejections, createCar's validation, an error at the lookup or at the write
\* step, a lookup that found nothing, and success.
PathStatus(q) ==
  IF Falsy(q.key) THEN 401
  ELSE IF q.key # validApiKey THEN 403
  ELSE IF q.nstmt = 0 THEN 400
  ELSE IF ~Falsy(q.err) THEN 500
  ELSE IF q.stmt = "get" THEN (IF Falsy(q.row) THEN 404 ELSE 200)
  ELSE IF q.op = "create" THEN 201
  ELSE 200

\* C14: a request has received no response while the gate or a statement of
\* its handler is pending, and exactly one once its path has ended, with the
\* status of that path; a request that stopped before any statement was
\* rejected by the gate or by createCar's validation.
C14_OneResponse ==
  \A r \in Reqs :
    LET q == req[r]
    IN  /\ q.sent <= 1
        /\ q.pc \in {"idle", "db", "cb"} => q.sent = 0
        /\ q.pc = "done" => q.sent = 1 /\ q.status = PathStatus(q)
        /\ q.pc = "done" /\ q.nstmt = 0 =>
             ~q.next \/ (q.op = "create" /\ q.status = 400)

\* An update was answered 500, once, after its UPDATE hit an I/O error.
C14_Witness ==
  \E r \in Reqs :
    /\ req[r].op = "update" /\ req[r].pc = "done" /\ req[r].sent = 1
    /\ req[r].stmt = "update" /\ req[r].status = 500

====
